---- MODULE Spec2Model ----
(***************************************************************************)
(* Job lifecycle, signature gate and gamification ledger of the field      *)
(* service client (src/src/pages/TaskDetail.tsx,                           *)
(* src/src/hooks/useGamification.tsx, src/unnamed/part_004 SignaturePad    *)
(* and the supabase migrations).                                           *)
(*                                                                         *)
(* Every handler is cut at its awaits: the synchronous part that runs on   *)
(* the user's click reads the values its render closed over, the part     *)
(* that runs when the backend answers still reads that same closure.       *)
(***************************************************************************)
EXTENDS Integers, Sequences, FiniteSets, TLC

VARIABLES
    \* ---- gamification ledger, one per client device (useGamification) ----
    data,              \* React state `data` of the hook
    stored,            \* localStorage gamification_<user id>
    saves,             \* saveData calls whose getUser() promise is pending, oldest first
    today,             \* the calendar day of the wall clock
    completedJobs,     \* localStorage 'completedJobs', per device
    earlyCompletions,  \* localStorage 'earlyCompletions', per device
    call,              \* the last hook / handler call and what it returned
    notified,          \* notifyAchievement calls made, per achievement id (0, 1, many)
    \* ---- job row and job_updates table (backend) ----
    jobStatus,         \* jobs.status
    jobSignature,      \* jobs.signature_url
    jobUpdatedAt,      \* jobs.updated_at, as the number of updates the row has had
    jobUpdates,        \* job_updates rows of the job, in insertion order
    \* ---- TaskDetail screen, one per client ----
    job,               \* useState job (its status), "none" before loadJob
    signatureUrl,      \* useState signatureUrl
    showSignaturePad,  \* useState showSignaturePad
    loading,           \* useState loading
    requests,          \* updateStatus calls past their guard, awaiting the backend
    padUpload,         \* SignaturePad.handleSave awaiting the upload
    reload,            \* a loadJob() whose select is pending
    \* ---- checklists of the job ----
    jobChecklist,      \* jobs.safety_checklist / materials_checklist / work_progress:
                       \* the completed flags of the items, per checklist
    jobCompletion,     \* jobs.safety_completion / materials_completion / work_completion
    checklistState,    \* TaskDetail useState safetyChecklist / materialsChecklist / workProgress
    checklistView,     \* useState checklist of each mounted Checklist component
    percent,           \* the last completion percentage computed, by the client and in SQL
    device,            \* the device (browser profile, hence localStorage) each account uses
    \* ---- photo approvals ----
    photo_approvals,   \* table photo_approvals, in insertion order; a row's id is its index
    notifications,     \* table notifications, in insertion order
    photos,            \* PhotoApprovals useState photos, per reviewer
    comments,          \* PhotoApprovals useState comments, per reviewer: photo id -> text
    \* ---- the rest of the job row ----
    assigned_to,       \* jobs.assigned_to
    \* ---- clock entries and the ClockButton of each session ----
    clock_entries,     \* table clock_entries, in insertion order; a row's id is its index
    activeEntry,       \* useState activeEntry: the id of the row it holds, 0 for null
    isOnBreak,         \* useState isOnBreak
    locationInterval,  \* the interval locationIntervalRef holds: the activeEntry (id) its
                       \* callback closed over, 0 when there is none
    locationRequests,  \* getCurrentLocation() calls of interval callbacks not yet answered,
                       \* each with the activeEntry (id) of its callback
    checking,          \* a checkActiveEntry() whose select is pending
    \* ---- useNotifications of the technician's NotificationBell ----
    notificationList,  \* useState notifications: id and read flag of each, newest first
    unreadCount,       \* useState unreadCount
    fetching,          \* a fetchNotifications() whose select is pending
    \* ---- the photos of the job screen, one per client ----
    taskPhotos,        \* TaskDetail useState photos
    uploadPhotos       \* PhotoUpload useState photos

ledgerVars == <<data, stored, saves, today, completedJobs, earlyCompletions, call, notified>>
jobVars == <<jobStatus, jobSignature, jobUpdatedAt, jobUpdates, job, signatureUrl, showSignaturePad,
             loading, requests, padUpload, reload>>
vars == <<data, stored, saves, today, completedJobs, earlyCompletions, call, notified,
          jobStatus, jobSignature, jobUpdatedAt, jobUpdates, job, signatureUrl,
          showSignaturePad,
          loading, requests, padUpload, reload,
          jobChecklist, jobCompletion, checklistState, checklistView, percent, device,
          photo_approvals, notifications, photos, comments,
          assigned_to,
          clock_entries, activeEntry, isOnBreak, locationInterval, locationRequests, checking,
          notificationList, unreadCount, fetching,
          taskPhotos, uploadPhotos>>
checkVars == <<jobChecklist, jobCompletion, checklistState, checklistView>>
photoVars == <<photo_approvals, notifications, photos, comments>>
clockVars == <<clock_entries, activeEntry, isOnBreak, locationInterval, locationRequests,
               checking>>
bellVars == <<notificationList, unreadCount, fetching>>
restVars == <<assigned_to, clockVars, bellVars>>
uploadVars == <<taskPhotos, uploadPhotos>>
extVars == <<checkVars, percent, device, photoVars, restVars, uploadVars>>

----------------------------------------------------------------------------
(* Bounds *)

MaxLevel == 3      \* addXP is not called once level exceeds this
MaxPhotos == 1     \* PhotoUpload accepts a file only while it holds fewer photos
MaxPending == 2    \* a hook call is issued only with fewer pending saves
MaxDay == 6        \* the wall clock stops advancing at this day
MaxCompleted == 21 \* completions counted in localStorage 'completedJobs'
MaxUpdates == 2    \* updates of the job row
MaxItems == 2      \* items in a checklist of the job on screen
MaxPhotoUpdates == 2   \* job updates inserted with a photo list
MaxReviews == 2    \* reviews that reach the backend
MaxStale == 2      \* completions a technician makes from a stale job screen
MaxEntries == 3    \* rows of clock_entries
MaxTicks == 2      \* location updates written to one clock entry
MaxNotifications == 4  \* notifications of the technician

----------------------------------------------------------------------------
(* Values *)

Clients == {"tech", "sup"}
Technician == "tech"
Supervisor == "sup"

NULL == "null"
NoDate == <<>>

Statuses == {"pending", "in_progress", "completed", "cancelled"}

\* the three checklists of a job
Kinds == {"safety", "materials", "work"}

AchievementIds == {"task_master", "early_bird", "perfect_week", "five_star", "speed_demon"}

\* ACHIEVEMENTS[id]: the metadata record, here its id field
ACHIEVEMENTS(id) == IF id \in AchievementIds THEN id ELSE NULL

InitialData ==
    [xp |-> 0, level |-> 1, streak |-> 0, lastClockIn |-> NoDate, achievements |-> <<>>]

NoCall ==
    [op |-> "none", client |-> NULL, arg |-> 0, early |-> FALSE, pre |-> InitialData,
     idle |-> TRUE, again |-> FALSE, saved |-> <<>>, leveledUp |-> FALSE, ret |-> 0,
     unlocked |-> {}, id |-> NULL, isNew |-> FALSE, achievement |-> NULL,
     completedItems |-> 0, previousCompleted |-> 0, photoId |-> 0, comment |-> NULL,
     failed |-> FALSE]

\* a TEXT[] column value: SQL NULL, or an array (possibly empty) of its elements
SqlNull == [is_null |-> TRUE, elems |-> <<>>]
SqlArray(elems) == [is_null |-> FALSE, elems |-> elems]

\* the accounts with the supervisor or the manager role
\* another staff account, with no screen open
OtherTechnician == "tech2"

\* two sessions (devices or tabs) of the technician with the home page open
ClockSessions == {"home1", "home2"}

Manager == "mgr"
Reviewers == {Supervisor, Manager}

includes(arr, x) == \E i \in 1..Len(arr) : arr[i] = x

\* new Date().toDateString(): one string per calendar day
toDateString(day) == <<day>>

----------------------------------------------------------------------------
(* useGamification: pure parts *)

\* addXP with a level-up loop: what a cascading implementation would do
RECURSIVE addXPCascade(_, _)
addXPCascade(d, amount) ==
    LET xpToNextLevel == d.level * 100
        newXP == d.xp + amount
    IN  IF newXP >= xpToNextLevel
        THEN LET r == addXPCascade([d EXCEPT !.xp = 0, !.level = d.level + 1],
                                   newXP - xpToNextLevel)
             IN  [r EXCEPT !.leveledUp = TRUE]
        ELSE [saved |-> [d EXCEPT !.xp = newXP], leveledUp |-> FALSE,
              newLevel |-> d.level, newXP |-> newXP]

\* addXP that never levels up
addXPNoLevelUp(d, amount) ==
    [saved |-> [d EXCEPT !.xp = d.xp + amount], leveledUp |-> FALSE,
     newLevel |-> d.level, newXP |-> d.xp + amount]

\* addXP(amount) evaluated on the closure's data d
addXP(d, amount) ==
    LET xpToNextLevel == d.level * 100
        newXP == d.xp + amount
    IN  IF newXP >= xpToNextLevel
        THEN [saved |-> [d EXCEPT !.xp = newXP - xpToNextLevel, !.level = d.level + 1],
              leveledUp |-> TRUE, newLevel |-> d.level + 1,
              newXP |-> newXP - xpToNextLevel]
        ELSE [saved |-> [d EXCEPT !.xp = newXP],
              leveledUp |-> FALSE, newLevel |-> d.level, newXP |-> newXP]

\* addAchievement without the includes test
addAchievementAlways(d, achievementId) ==
    [saved |-> <<[d EXCEPT !.achievements = Append(d.achievements, achievementId)]>>,
     isNew |-> TRUE]

\* addAchievement(achievementId) evaluated on the closure's data d
addAchievement(d, achievementId) ==
    IF ~includes(d.achievements, achievementId)
    THEN [saved |-> <<[d EXCEPT !.achievements = Append(d.achievements, achievementId)]>>,
          isNew |-> TRUE]
    ELSE [saved |-> <<>>, isNew |-> FALSE]

\* updateStreak() evaluated on the closure's data d on calendar day `day`
updateStreak(d, day) ==
    LET todayStr == toDateString(day)
        yesterday == toDateString(day - 1)
    IN  IF d.lastClockIn = yesterday
        THEN LET newStreak == d.streak + 1
                 first == [d EXCEPT !.streak = newStreak, !.lastClockIn = todayStr]
             IN  [saved |-> <<first>> \o
                            (IF newStreak >= 5 /\ ~includes(d.achievements, "perfect_week")
                             THEN addAchievement(d, "perfect_week").saved
                             ELSE <<>>),
                  newStreak |-> newStreak]
        ELSE IF d.lastClockIn # todayStr
        THEN [saved |-> <<[d EXCEPT !.streak = 1, !.lastClockIn = todayStr]>>,
              newStreak |-> 1]
        ELSE [saved |-> <<>>, newStreak |-> d.streak]

----------------------------------------------------------------------------
(* useGamification: actions *)

\* saveData(newData) for each element of `news`: the getUser() promises are started
StartSaves(c, news) == saves' = [saves EXCEPT ![c] = @ \o news]

\* the .then callback of the oldest pending saveData call runs: the auth client
\* answers its getUser() calls in the order they were made
SaveDone(c) ==
    /\ saves[c] # <<>>
    /\ LET s == Head(saves[c])
       IN  /\ stored' = [stored EXCEPT ![c] = s]
           /\ data' = [data EXCEPT ![c] = s]
           /\ saves' = [saves EXCEPT ![c] = Tail(@)]
    /\ UNCHANGED <<today, completedJobs, earlyCompletions, call, notified>>
    /\ UNCHANGED jobVars
    /\ UNCHANGED extVars

\* addXP reading the newest value handed to saveData instead of the render's data
AddXPOnLatest(c, amount) ==
    /\ data[c].level <= MaxLevel
    /\ Len(saves[c]) < MaxPending
    /\ LET latest == IF saves[c] = <<>> THEN data[c] ELSE saves[c][Len(saves[c])]
           r == addXP(latest, amount)
       IN  /\ StartSaves(c, <<r.saved>>)
           /\ call' = [NoCall EXCEPT !.op = "addXP", !.client = c, !.arg = amount,
                                     !.pre = data[c], !.idle = (saves[c] = <<>>),
                                     !.again = (call.op = "addXP" /\ call.client = c
                                                /\ call.pre = data[c]
                                                /\ Len(saves[c]) = 1),
                                     !.saved = <<r.saved>>, !.leveledUp = r.leveledUp,
                                     !.ret = r.newXP]
    /\ UNCHANGED <<data, stored, today, completedJobs, earlyCompletions, notified>>
    /\ UNCHANGED jobVars
    /\ UNCHANGED extVars

\* gamification.addXP(amount) called on the current render
AddXP(c, amount) ==
    /\ data[c].level <= MaxLevel
    /\ Len(saves[c]) < MaxPending
    /\ LET r == addXP(data[c], amount)
       IN  /\ StartSaves(c, <<r.saved>>)
           /\ call' = [NoCall EXCEPT !.op = "addXP", !.client = c, !.arg = amount,
                                     !.pre = data[c], !.idle = (saves[c] = <<>>),
                                     !.again = (call.op = "addXP" /\ call.client = c
                                                /\ call.pre = data[c]
                                                /\ Len(saves[c]) = 1),
                                     !.saved = <<r.saved>>, !.leveledUp = r.leveledUp,
                                     !.ret = r.newXP]
    /\ UNCHANGED <<data, stored, today, completedJobs, earlyCompletions, notified>>
    /\ UNCHANGED jobVars
    /\ UNCHANGED extVars

\* gamification.addAchievement(achievementId) called on the current render
AddAchievement(c, achievementId) ==
    /\ Len(saves[c]) < MaxPending
    /\ LET r == addAchievement(data[c], achievementId)
       IN  /\ StartSaves(c, r.saved)
           /\ call' = [NoCall EXCEPT !.op = "addAchievement", !.client = c,
                                     !.id = achievementId,
                                     !.pre = data[c], !.idle = (saves[c] = <<>>),
                                     !.saved = r.saved, !.isNew = r.isNew,
                                     !.achievement = IF r.isNew THEN ACHIEVEMENTS(achievementId)
                                                     ELSE NULL]
    /\ UNCHANGED <<data, stored, today, completedJobs, earlyCompletions, notified>>
    /\ UNCHANGED jobVars
    /\ UNCHANGED extVars

\* gamification.updateStreak() called on the current render
UpdateStreak(c) ==
    /\ Len(saves[c]) < MaxPending
    /\ LET r == updateStreak(data[c], today)
       IN  /\ StartSaves(c, r.saved)
           /\ call' = [NoCall EXCEPT !.op = "updateStreak", !.client = c, !.arg = today,
                                     !.pre = data[c], !.idle = (saves[c] = <<>>),
                                     !.again = (call.op = "updateStreak" /\ call.client = c
                                                /\ call.arg = today /\ call.idle),
                                     !.saved = r.saved, !.ret = r.newStreak]
    /\ UNCHANGED <<data, stored, today, completedJobs, earlyCompletions, notified>>
    /\ UNCHANGED jobVars
    /\ UNCHANGED extVars

\* midnight passes
NextDay ==
    /\ today < MaxDay
    /\ today' = today + 1
    /\ UNCHANGED <<data, stored, saves, completedJobs, earlyCompletions, call, notified>>
    /\ UNCHANGED jobVars
    /\ UNCHANGED extVars

----------------------------------------------------------------------------
(* TaskDetail: completion rewards (updateStatus, success branch for "completed") *)

XpEarly == 50
XpOnTime == 30
FiveStarJobs == 20
SpeedDemonJobs == 5

\* The reward block on the closure's data d. completedEarly is
\* scheduledEnd && now < scheduledEnd; cj and ec are the two localStorage counters.
CompletionRewards(d, completedEarly, cj, ec) ==
    LET xpAmount == IF completedEarly THEN XpEarly ELSE XpOnTime
        result == addXP(d, xpAmount)
        taskMasterResult == addAchievement(d, "task_master")
        newCompleted == cj + 1
        fiveStarResult == IF newCompleted >= FiveStarJobs
                          THEN addAchievement(d, "five_star")
                          ELSE [saved |-> <<>>, isNew |-> FALSE]
        newEarly == IF completedEarly THEN ec + 1 ELSE ec
        speedDemonResult == IF completedEarly /\ newEarly >= SpeedDemonJobs
                            THEN addAchievement(d, "speed_demon")
                            ELSE [saved |-> <<>>, isNew |-> FALSE]
    IN  [xpAmount |-> xpAmount,
         leveledUp |-> result.leveledUp,
         saved |-> <<result.saved>> \o taskMasterResult.saved \o fiveStarResult.saved
                   \o speedDemonResult.saved,
         completedJobs |-> newCompleted,
         earlyCompletions |-> newEarly,
         unlocked |-> {a \in {"task_master"} : taskMasterResult.isNew}
                      \cup {a \in {"five_star"} : fiveStarResult.isNew}
                      \cup {a \in {"speed_demon"} : speedDemonResult.isNew}]

\* the reward block applied to client c's ledger, for the request closure rq
Rewards(c, rq, completedEarly) ==
    LET r == CompletionRewards(rq.data, completedEarly, completedJobs[device[c]],
                               earlyCompletions[device[c]])
    IN  /\ Len(saves[c]) < MaxPending
        /\ StartSaves(c, r.saved)
        /\ completedJobs' = [completedJobs EXCEPT ![device[c]] = r.completedJobs]
        /\ earlyCompletions' = [earlyCompletions EXCEPT ![device[c]] = r.earlyCompletions]
        /\ notified' = [notified EXCEPT ![c] =
                           [a \in AchievementIds |->
                               IF a \in r.unlocked /\ @[a] < 2 THEN @[a] + 1 ELSE @[a]]]
        /\ call' = [NoCall EXCEPT !.op = "complete", !.client = c, !.arg = r.xpAmount,
                                  !.early = completedEarly, !.pre = stored[c],
                                  !.idle = (saves[c] = <<>> /\ rq.data = stored[c]),
                                  !.saved = r.saved, !.leveledUp = r.leveledUp,
                                  !.unlocked = r.unlocked]
        /\ UNCHANGED <<data, stored, today>>

----------------------------------------------------------------------------
(* Number (IEEE-754 binary64) arithmetic on positive values, as the client   *)
(* computes (completedItems / totalItems) * 100 and Math.round of it.        *)
(* A number is [a, b, c, exp]: its 53-bit significand is                     *)
(* a * 2^36 + b * 2^18 + c with 2^16 <= a < 2^17 and b, c < 2^18, and exp    *)
(* is the binary exponent of the significand's first bit.                    *)

LimbBits == 18
Limb == 2^LimbBits
TopLimb == 2^(LimbBits - 1)

\* significand + 1
NumberInc(x) ==
    LET c1 == x.c + 1
        b1 == x.b + (c1 \div Limb)
        a1 == x.a + (b1 \div Limb)
    IN  IF a1 = TopLimb
        THEN [a |-> TopLimb \div 2, b |-> 0, c |-> 0, exp |-> x.exp + 1]
        ELSE [a |-> a1, b |-> b1 % Limb, c |-> c1 % Limb, exp |-> x.exp]

\* round to nearest, ties to even: x is the exact value cut after the significand,
\* rest / whole is the part that was cut, in units of the last place
RoundToNumber(x, rest, whole) ==
    IF 2 * rest > whole \/ (2 * rest = whole /\ x.c % 2 = 1) THEN NumberInc(x) ELSE x

\* the least e with c * 2^e >= t
RECURSIVE Shift(_, _)
Shift(c, t) == IF c >= t THEN 0 ELSE 1 + Shift(2 * c, t)

\* c / t for integers 0 < c <= t
Divide(c, t) ==
    LET e == Shift(c, t)
        r0 == c * 2^e - t
        a == (r0 * (TopLimb \div 2)) \div t
        r1 == (r0 * (TopLimb \div 2)) % t
        b == (r1 * Limb) \div t
        r2 == (r1 * Limb) % t
        cc == (r2 * Limb) \div t
        r3 == (r2 * Limb) % t
    IN  RoundToNumber([a |-> TopLimb \div 2 + a, b |-> b, c |-> cc, exp |-> 0 - e], r3, t)

\* x * k for an integer 1 <= k < 128
Times(x, k) ==
    LET pc == x.c * k
        pb == x.b * k + (pc \div Limb)
        pa == x.a * k + (pb \div Limb)
        lc == pc % Limb
        lb == pb % Limb
        \* the product has n bits more than the significand
        n == CHOOSE m \in 0..7 : 2^m * (TopLimb \div 2) <= pa /\ pa < 2^m * TopLimb
        cut == 2^n
    IN  RoundToNumber([a |-> pa \div cut,
                       b |-> (lb \div cut) + (pa % cut) * (Limb \div cut),
                       c |-> (lc \div cut) + (lb % cut) * (Limb \div cut),
                       exp |-> x.exp + n],
                      lc % cut, cut)

\* Math.round(x), x > 0: the nearest integer, a tie going up
MathRound(x) ==
    IF x.exp < -1 THEN 0
    ELSE (x.a \div 2^(LimbBits - 3 - x.exp) + 1) \div 2

\* handleWorkProgressUpdate: the completion percentage of a list with
\* completedItems of totalItems items completed
workCompletion(completedItems, totalItems) ==
    IF totalItems > 0
    THEN IF completedItems = 0 THEN 0
         ELSE MathRound(Times(Divide(completedItems, totalItems), 100))
    ELSE 0

----------------------------------------------------------------------------
(* numeric arithmetic of calculate_checklist_completion: the quotient of two *)
(* integer-valued numerics has 20 decimal places, kept here as               *)
(* [int, f1, f2, f3, f4] with five places in each f                          *)

Places == 100000

\* completed_items::numeric / total_items::numeric, rounded at the 20th place
NumericDivide(c, t) ==
    LET r0 == c % t
        f1 == (r0 * Places) \div t
        r1 == (r0 * Places) % t
        f2 == (r1 * Places) \div t
        r2 == (r1 * Places) % t
        f3 == (r2 * Places) \div t
        r3 == (r2 * Places) % t
        f4 == (r3 * Places) \div t
        r4 == (r3 * Places) % t
        up == IF (r4 * 10) \div t >= 5 THEN 1 ELSE 0
        g4 == f4 + up
        g3 == f3 + (g4 \div Places)
        g2 == f2 + (g3 \div Places)
        g1 == f1 + (g2 \div Places)
    IN  [int |-> c \div t + (g1 \div Places), f1 |-> g1 % Places, f2 |-> g2 % Places,
         f3 |-> g3 % Places, f4 |-> g4 % Places]

\* ROUND(x * 100, 0): half away from zero
NumericRoundTimes100(x) ==
    x.int * 100 + x.f1 \div 1000 + (IF (x.f1 \div 100) % 10 >= 5 THEN 1 ELSE 0)

\* calculate_checklist_completion on a checklist with completed_items of
\* total_items items completed
calculate_checklist_completion(completed_items, total_items) ==
    IF total_items = 0 THEN 0
    ELSE NumericRoundTimes100(NumericDivide(completed_items, total_items))

\* the job form keeps at most this many items of a checklist
MaxChecklistItems == 50

\* both computations are applied to a checklist of totalItems items, completedItems
\* of them completed
ComputePercent(completedItems, totalItems) ==
    /\ percent' = [completedItems |-> completedItems, totalItems |-> totalItems,
                   client |-> workCompletion(completedItems, totalItems),
                   sql |-> calculate_checklist_completion(completedItems, totalItems)]
    /\ UNCHANGED ledgerVars
    /\ UNCHANGED jobVars
    /\ UNCHANGED <<checkVars, device, restVars, uploadVars, photoVars>>

----------------------------------------------------------------------------
(* TaskDetail: the job screen *)

SignatureUrls == {"sigA"}

\* scheduledEnd && now < scheduledEnd for the job on screen: the job form writes no
\* scheduled_end, and the job has not been placed on the scheduler's calendar
JobEndsLater == FALSE

\* jobs.assigned_to of the job on screen
\* the trigger on job_updates that creates the photo approvals
PhotoUrls == {"urlA", "urlB"}

\* create_photo_approvals ignoring the conflict target: a row for every element
InsertApprovalAlways(table, job_update_id, photo_url) ==
    Append(table, [job_update_id |-> job_update_id, photo_url |-> photo_url,
                   status |-> "pending", comments |-> NULL, reviewed_by |-> NULL])

\* INSERT INTO photo_approvals (job_update_id, photo_url) VALUES (id, url)
\* ON CONFLICT (job_update_id, photo_url) DO NOTHING; the other columns default
InsertApproval(table, job_update_id, photo_url) ==
    IF \E i \in 1..Len(table) : /\ table[i].job_update_id = job_update_id
                                /\ table[i].photo_url = photo_url
    THEN table
    ELSE Append(table, [job_update_id |-> job_update_id, photo_url |-> photo_url,
                        status |-> "pending", comments |-> NULL, reviewed_by |-> NULL])

\* create_photo_approvals(): one insert for each element of unnest(NEW.photo_urls)
RECURSIVE create_photo_approvals(_, _, _)
create_photo_approvals(table, id, urls) ==
    IF urls = <<>> THEN table
    ELSE create_photo_approvals(InsertApproval(table, id, Head(urls)), id, Tail(urls))

\* trigger on_job_update_photos_inserted, AFTER INSERT ON job_updates: its WHEN
\* clause is not true for NULL nor for '{}' (array_length of an empty array is NULL)
on_job_update_photos_inserted(table, id, photo_urls) ==
    IF ~photo_urls.is_null /\ Len(photo_urls.elems) > 0
    THEN create_photo_approvals(table, id, photo_urls.elems)
    ELSE table

JobAssignedTo == assigned_to

\* RLS "Users can update their assigned jobs" / "Supervisors can update any job"
CanUpdateJob(user) == user = JobAssignedTo \/ user = Supervisor

\* RLS "Users can view their assigned jobs" / "Supervisors can view all jobs"
CanViewJob(user) == user = JobAssignedTo \/ user = Supervisor

\* RLS "Users can create updates for their jobs": the only INSERT policy of job_updates
CanInsertJobUpdate(user) == user = JobAssignedTo

\* what a render closes over
Closure(c) == [job |-> job[c], signatureUrl |-> signatureUrl[c], data |-> data[c],
               photos |-> taskPhotos[c]]

\* the status buttons the screen renders for the loaded job
ButtonShown(status, newStatus) ==
    CASE newStatus = "in_progress" -> status = "pending"
      [] newStatus = "completed" -> status = "in_progress"
      [] newStatus = "cancelled" -> status \notin {"none", "completed"}
      [] OTHER -> FALSE

\* updateStatus without the signature requirement
updateStatusGuardNoSignature(newStatus, cl) ==
    IF cl.job = "none" THEN "return" ELSE "proceed"

\* the synchronous head of updateStatus(newStatus) on the closure cl
updateStatusGuard(newStatus, cl) ==
    IF cl.job = "none" THEN "return"
    ELSE IF newStatus = "completed" /\ cl.signatureUrl = NULL THEN "signature"
    ELSE "proceed"

Request(newStatus, cl) ==
    [newStatus |-> newStatus, signatureUrl |-> cl.signatureUrl, data |-> cl.data,
     photos |-> cl.photos]

\* RLS "Users can view updates for their jobs" / "Supervisors can view all job updates"
CanViewJobUpdates(user) == user = JobAssignedTo \/ user = Supervisor

\* .from("job_updates").select("photo_urls").eq("job_id", id).not("photo_urls", "is", null)
UpdatesWithPhotos == SelectSeq(jobUpdates, LAMBDA u : ~u.photo_urls.is_null)

\* updates.flatMap(u => u.photo_urls || [])
RECURSIVE allPhotos(_)
allPhotos(updates) ==
    IF updates = <<>> THEN <<>>
    ELSE Head(updates).photo_urls.elems \o allPhotos(Tail(updates))

\* photo_urls: photos.length > 0 ? photos : null
PhotoUrlsOf(list) == IF Len(list) > 0 THEN SqlArray(list) ELSE SqlNull

\* the first loadJob answer or the one started by a successful updateStatus
LoadJobDone(c) ==
    /\ reload[c]
    /\ reload' = [reload EXCEPT ![c] = FALSE]
    \* if (data): a select that returns no row sets nothing
    /\ IF CanViewJob(c)
       THEN /\ job' = [job EXCEPT ![c] = jobStatus]
            /\ signatureUrl' = [signatureUrl EXCEPT ![c] = jobSignature]
            /\ checklistState' = [checklistState EXCEPT ![c] = jobChecklist]
            \* the Checklist components mount with the first loaded lists and keep
            \* their own state afterwards
            /\ checklistView' = [checklistView EXCEPT ![c] =
                                    IF job[c] = "none" THEN jobChecklist ELSE @]
       ELSE UNCHANGED <<job, signatureUrl, checklistState, checklistView>>
    \* if (updates && updates.length > 0) setPhotos(allPhotos)
    /\ taskPhotos' = [taskPhotos EXCEPT ![c] =
                         IF CanViewJobUpdates(c) /\ UpdatesWithPhotos # <<>>
                         THEN allPhotos(UpdatesWithPhotos) ELSE @]
    /\ UNCHANGED <<jobStatus, jobSignature, jobUpdatedAt, jobUpdates, showSignaturePad, loading,
                   requests, padUpload>>
    /\ UNCHANGED ledgerVars
    /\ UNCHANGED <<jobChecklist, jobCompletion, percent, device, restVars, photoVars,
                   uploadPhotos>>

\* a status button is pressed: updateStatus(newStatus) up to its first await
ClickStatus(c, newStatus) ==
    /\ ButtonShown(job[c], newStatus)
    /\ ~loading[c]
    /\ LET g == updateStatusGuard(newStatus, Closure(c))
       IN  /\ g # "return"
           /\ showSignaturePad' = [showSignaturePad EXCEPT ![c] = (g = "signature") \/ @]
           /\ loading' = [loading EXCEPT ![c] = (g = "proceed") \/ @]
           /\ requests' = [requests EXCEPT ![c] =
                              IF g = "proceed" THEN @ \cup {Request(newStatus, Closure(c))}
                              ELSE @]
    /\ UNCHANGED <<jobStatus, jobSignature, jobUpdatedAt, jobUpdates, job, signatureUrl, padUpload,
                   reload>>
    /\ UNCHANGED ledgerVars
    /\ UNCHANGED extVars

\* updateStatus after its awaits: the jobs update is answered, then the rewards, the
\* job_updates insert and the unawaited loadJob()
UpdateStatusWrite(c, ok, completedEarly) ==
    /\ jobUpdatedAt < MaxUpdates
    /\ completedJobs[device[c]] < MaxCompleted
    /\ \E rq \in requests[c] :
        /\ requests' = [requests EXCEPT ![c] = @ \ {rq}]
        /\ loading' = [loading EXCEPT ![c] = FALSE]
        /\ IF ~ok
           THEN /\ UNCHANGED <<jobStatus, jobSignature, jobUpdatedAt, jobUpdates, reload,
                               photo_approvals>>
                /\ UNCHANGED ledgerVars
           ELSE /\ IF CanUpdateJob(c)
                   THEN /\ jobStatus' = rq.newStatus
                        /\ jobSignature' = IF rq.newStatus = "completed"
                                           THEN rq.signatureUrl ELSE jobSignature
                        /\ jobUpdatedAt' = jobUpdatedAt + 1
                   ELSE UNCHANGED <<jobStatus, jobSignature, jobUpdatedAt>>
                /\ IF rq.newStatus = "completed"
                   THEN Rewards(c, rq, completedEarly)
                   ELSE UNCHANGED ledgerVars
                /\ jobUpdates' = IF CanInsertJobUpdate(c)
                                 THEN Append(jobUpdates,
                                             [user_id |-> c, update_type |-> rq.newStatus,
                                              photo_urls |-> PhotoUrlsOf(rq.photos)])
                                 ELSE jobUpdates
                \* the trigger runs in the transaction of the insert
                /\ photo_approvals' =
                       IF CanInsertJobUpdate(c)
                       THEN on_job_update_photos_inserted(photo_approvals,
                                                          Len(jobUpdates) + 1,
                                                          PhotoUrlsOf(rq.photos))
                       ELSE photo_approvals
                /\ reload' = [reload EXCEPT ![c] = TRUE]
    /\ UNCHANGED <<job, signatureUrl, showSignaturePad, padUpload>>
    /\ UNCHANGED <<checkVars, percent, device, restVars, uploadVars, notifications, photos,
                   comments>>

\* the supervisor's job form saves an edit of the job: jobData carries
\* status "pending" and no signature_url
JobFormSave ==
    /\ CanUpdateJob(Supervisor)
    /\ jobUpdatedAt < MaxUpdates
    /\ jobStatus' = "pending"
    /\ jobUpdatedAt' = jobUpdatedAt + 1
    /\ UNCHANGED <<jobSignature, jobUpdates, job, signatureUrl, showSignaturePad, loading,
                   requests, padUpload, reload>>
    /\ UNCHANGED ledgerVars
    \* the three lists are rebuilt from the form's text, every item not completed
    /\ jobChecklist' = [k \in Kinds |-> [i \in 1..Len(jobChecklist[k]) |-> FALSE]]
    /\ UNCHANGED <<jobCompletion, checklistState, checklistView, percent, device, restVars, uploadVars,
                   photoVars>>

\* SignaturePad: Cancel
PadCancel(c) ==
    /\ showSignaturePad[c]
    /\ showSignaturePad' = [showSignaturePad EXCEPT ![c] = FALSE]
    /\ UNCHANGED <<jobStatus, jobSignature, jobUpdatedAt, jobUpdates, job, signatureUrl, loading,
                   requests, padUpload, reload>>
    /\ UNCHANGED ledgerVars
    /\ UNCHANGED extVars

\* SignaturePad: Save is pressed on a drawn signature; handleSave runs up to its
\* awaits holding the onSignatureSave of the render it was created in
PadSave(c) ==
    /\ showSignaturePad[c]
    /\ padUpload[c] = {}
    /\ padUpload' = [padUpload EXCEPT ![c] = {Closure(c)}]
    /\ UNCHANGED <<jobStatus, jobSignature, jobUpdatedAt, jobUpdates, job, signatureUrl,
                   showSignaturePad, loading, requests, reload>>
    /\ UNCHANGED ledgerVars
    /\ UNCHANGED extVars

\* SignaturePad.handleSave after the upload: on success onSignatureSave(url), which
\* is handleSignatureSave and its updateStatus("completed"), both of the old render
PadSaved(c, ok, url) ==
    /\ \E cl \in padUpload[c] :
        /\ padUpload' = [padUpload EXCEPT ![c] = {}]
        /\ IF ~ok
           THEN UNCHANGED <<signatureUrl, showSignaturePad, loading, requests>>
           ELSE LET g == updateStatusGuard("completed", cl)
                IN  /\ signatureUrl' = [signatureUrl EXCEPT ![c] = url]
                    /\ showSignaturePad' = [showSignaturePad EXCEPT ![c] = (g = "signature")]
                    /\ loading' = [loading EXCEPT ![c] = (g = "proceed") \/ @]
                    /\ requests' = [requests EXCEPT ![c] =
                                       IF g = "proceed"
                                       THEN @ \cup {Request("completed", cl)}
                                       ELSE @]
    /\ UNCHANGED <<jobStatus, jobSignature, jobUpdatedAt, jobUpdates, job, reload>>
    /\ UNCHANGED ledgerVars
    /\ UNCHANGED extVars

\* PhotoUpload.handleFileSelect with one accepted image, the upload done and its url
\* signed: setPhotos(updatedPhotos) and onPhotosUpdate(updatedPhotos), which is the
\* screen's setPhotos
HandleFileSelect(c, url) ==
    /\ job[c] # "none"
    /\ Len(uploadPhotos[c]) < MaxPhotos
    /\ LET updatedPhotos == uploadPhotos[c] \o <<url>>
       IN  /\ uploadPhotos' = [uploadPhotos EXCEPT ![c] = updatedPhotos]
           /\ taskPhotos' = [taskPhotos EXCEPT ![c] = updatedPhotos]
    /\ UNCHANGED <<ledgerVars, jobVars, checkVars, percent, device, photoVars, restVars>>

\* updateStatus("completed") passes its guard on one of the technician's jobs in
\* progress, signature attached; the job's row is outside the ledger specification.
\* The technician opens the next job after the saves of the last one have finished.
CompletionCall(c) ==
    /\ ~loading[c]
    /\ requests[c] = {}
    /\ saves[c] = <<>>
    /\ updateStatusGuard("completed", [Closure(c) EXCEPT !.job = "in_progress",
                                                         !.signatureUrl = "sigA"]) = "proceed"
    /\ loading' = [loading EXCEPT ![c] = TRUE]
    /\ requests' = [requests EXCEPT ![c] =
                       {Request("completed", [Closure(c) EXCEPT !.signatureUrl = "sigA"])}]
    /\ UNCHANGED <<jobStatus, jobSignature, jobUpdatedAt, jobUpdates, job, signatureUrl,
                   showSignaturePad, padUpload, reload>>
    /\ UNCHANGED ledgerVars
    /\ UNCHANGED extVars

\* the jobs update of that call succeeded: the reward block runs
CompletionAnswered(c, completedEarly) ==
    /\ completedJobs[device[c]] < MaxCompleted
    /\ \E rq \in requests[c] :
        /\ rq.newStatus = "completed"
        /\ requests' = [requests EXCEPT ![c] = @ \ {rq}]
        /\ loading' = [loading EXCEPT ![c] = FALSE]
        /\ Rewards(c, rq, completedEarly)
    /\ UNCHANGED <<jobStatus, jobSignature, jobUpdatedAt, jobUpdates, job, signatureUrl,
                   showSignaturePad, padUpload, reload>>
    /\ UNCHANGED extVars

----------------------------------------------------------------------------
(* TaskDetail: checklists *)

WorkXp == 20

\* items.filter(item => item.completed).length
CompletedCount(items) == Cardinality({i \in 1..Len(items) : items[i]})

\* Checklist.handleToggle(index) on the component's checklist
handleToggle(checklist, index) == [checklist EXCEPT ![index] = ~@]

\* handleWorkProgressUpdate awarding on every update, whatever the counts
handleWorkProgressUpdateAlways(items, workProgress) ==
    [workCompletion |-> workCompletion(CompletedCount(items), Len(items)),
     completedItems |-> CompletedCount(items),
     previousCompleted |-> CompletedCount(workProgress),
     award |-> TRUE]

\* handleWorkProgressUpdate(items) on the closure's workProgress: the percentage it
\* writes and whether it awards XP
handleWorkProgressUpdate(items, workProgress) ==
    LET totalItems == Len(items)
        completedItems == CompletedCount(items)
        previousCompleted == CompletedCount(workProgress)
    IN  [workCompletion |-> workCompletion(completedItems, totalItems),
         completedItems |-> completedItems,
         previousCompleted |-> previousCompleted,
         award |-> completedItems > previousCompleted]

\* a checklist handler whose update also starts a pending job
ChecklistToggleStarting(c, kind, index) ==
    /\ job[c] # "none"
    /\ index \in 1..Len(checklistView[c][kind])
    /\ jobUpdatedAt < MaxUpdates
    /\ LET items == handleToggle(checklistView[c][kind], index)
           r == handleWorkProgressUpdate(items, checklistState[c]["work"])
           award == kind = "work" /\ r.award
           result == addXP(data[c], WorkXp)
       IN  /\ checklistView' = [checklistView EXCEPT ![c][kind] = items]
           /\ checklistState' = [checklistState EXCEPT ![c][kind] = items]
           /\ award => (data[c].level <= MaxLevel /\ Len(saves[c]) < MaxPending)
           /\ StartSaves(c, IF award THEN <<result.saved>> ELSE <<>>)
           /\ call' = [NoCall EXCEPT !.op = "checklist", !.client = c, !.id = kind,
                                     !.pre = data[c], !.idle = (saves[c] = <<>>),
                                     !.arg = IF award THEN WorkXp ELSE 0,
                                     !.completedItems = CompletedCount(items),
                                     !.previousCompleted =
                                         CompletedCount(checklistState[c][kind]),
                                     !.saved = IF award THEN <<result.saved>> ELSE <<>>,
                                     !.leveledUp = award /\ result.leveledUp]
           /\ IF CanUpdateJob(c)
              THEN /\ jobChecklist' = [jobChecklist EXCEPT ![kind] = items]
                   /\ jobCompletion' = IF kind = "work"
                                       THEN [jobCompletion EXCEPT ![kind] = r.workCompletion]
                                       ELSE jobCompletion
                   /\ jobUpdatedAt' = jobUpdatedAt + 1
                   /\ jobStatus' = IF jobStatus = "pending" THEN "in_progress" ELSE jobStatus
              ELSE UNCHANGED <<jobChecklist, jobCompletion, jobUpdatedAt, jobStatus>>
    /\ UNCHANGED <<data, stored, today, completedJobs, earlyCompletions, notified>>
    /\ UNCHANGED <<jobSignature, jobUpdates, job, signatureUrl, showSignaturePad,
                   loading, requests, padUpload, reload>>
    /\ UNCHANGED <<percent, device, restVars, uploadVars, photoVars>>

\* item `index` of checklist `kind` is toggled on the screen: Checklist.handleToggle
\* and the handler it calls, its jobs update included
ChecklistToggle(c, kind, index) ==
    /\ job[c] # "none"
    /\ index \in 1..Len(checklistView[c][kind])
    /\ jobUpdatedAt < MaxUpdates
    /\ LET items == handleToggle(checklistView[c][kind], index)
           r == handleWorkProgressUpdate(items, checklistState[c]["work"])
           award == kind = "work" /\ r.award
           result == addXP(data[c], WorkXp)
       IN  /\ checklistView' = [checklistView EXCEPT ![c][kind] = items]
           /\ checklistState' = [checklistState EXCEPT ![c][kind] = items]
           /\ award => (data[c].level <= MaxLevel /\ Len(saves[c]) < MaxPending)
           /\ StartSaves(c, IF award THEN <<result.saved>> ELSE <<>>)
           /\ call' = [NoCall EXCEPT !.op = "checklist", !.client = c, !.id = kind,
                                     !.pre = data[c], !.idle = (saves[c] = <<>>),
                                     !.arg = IF award THEN WorkXp ELSE 0,
                                     !.completedItems = CompletedCount(items),
                                     !.previousCompleted =
                                         CompletedCount(checklistState[c][kind]),
                                     !.saved = IF award THEN <<result.saved>> ELSE <<>>,
                                     !.leveledUp = award /\ result.leveledUp]
           /\ IF CanUpdateJob(c)
              THEN /\ jobChecklist' = [jobChecklist EXCEPT ![kind] = items]
                   /\ jobCompletion' = IF kind = "work"
                                       THEN [jobCompletion EXCEPT ![kind] = r.workCompletion]
                                       ELSE jobCompletion
                   /\ jobUpdatedAt' = jobUpdatedAt + 1
              ELSE UNCHANGED <<jobChecklist, jobCompletion, jobUpdatedAt>>
    /\ UNCHANGED <<data, stored, today, completedJobs, earlyCompletions, notified>>
    /\ UNCHANGED <<jobStatus, jobSignature, jobUpdates, job, signatureUrl, showSignaturePad,
                   loading, requests, padUpload, reload>>
    /\ UNCHANGED <<percent, device, restVars, uploadVars, photoVars>>

\* ReassignJobDialog.handleReassign with selectedStaff chosen, on the job as the
\* supervisor's list shows it when the dialog is confirmed
HandleReassign(c, selectedStaff) ==
    /\ jobUpdatedAt < MaxUpdates
    /\ IF CanUpdateJob(c)
       THEN assigned_to' = selectedStaff /\ jobUpdatedAt' = jobUpdatedAt + 1
       ELSE UNCHANGED <<assigned_to, jobUpdatedAt>>
    /\ notifications' =
           LET first == Append(notifications,
                               [user_id |-> selectedStaff, title |-> "New Job Assigned",
                                read |-> FALSE, created_by |-> c])
           IN  IF assigned_to # selectedStaff
               THEN Append(first, [user_id |-> assigned_to, title |-> "Job Reassigned",
                                   read |-> FALSE, created_by |-> c])
               ELSE first
    /\ call' = [NoCall EXCEPT !.op = "handleReassign", !.client = c, !.id = selectedStaff]
    /\ UNCHANGED <<data, stored, saves, today, completedJobs, earlyCompletions, notified>>
    /\ UNCHANGED <<jobStatus, jobSignature, jobUpdates, job, signatureUrl, showSignaturePad,
                   loading, requests, padUpload, reload>>
    /\ UNCHANGED <<checkVars, percent, device, photo_approvals, photos, comments>>
    /\ UNCHANGED <<clockVars, bellVars, uploadVars>>

----------------------------------------------------------------------------
(* Photo approvals: the trigger on job_updates and the PhotoApprovals page *)

\* supabase.from("job_updates").insert({..., photo_urls}) by account c, the trigger
\* running in the insert's transaction
InsertJobUpdate(c, update_type, photo_urls) ==
    /\ Len(jobUpdates) < MaxPhotoUpdates
    /\ CanInsertJobUpdate(c)
    /\ jobUpdates' = Append(jobUpdates, [user_id |-> c, update_type |-> update_type,
                                         photo_urls |-> photo_urls])
    /\ photo_approvals' =
           on_job_update_photos_inserted(photo_approvals, Len(jobUpdates) + 1, photo_urls)
    /\ UNCHANGED <<ledgerVars, jobStatus, jobSignature, jobUpdatedAt, job, signatureUrl,
                   showSignaturePad, loading, requests, padUpload, reload>>
    /\ UNCHANGED <<checkVars, percent, device, restVars, uploadVars, notifications, photos, comments>>

\* comments[photoId] || ""
commentOf(r, photoId) ==
    IF photoId \in DOMAIN comments[r] THEN comments[r][photoId] ELSE ""

\* delete newComments[photoId]
deleteComment(r, photoId) ==
    [i \in DOMAIN comments[r] \ {photoId} |-> comments[r][i]]

\* the card of photoId shows its textarea and buttons: photo.status === "pending"
\* in the list the page has loaded
ReviewShown(r, photoId) ==
    /\ photoId \in 1..Len(photos[r])
    /\ photos[r][photoId].status = "pending"

\* loadPhotos(), on mount and on every realtime change of the table, whenever its
\* select is answered
LoadPhotos(r) ==
    /\ photos' = [photos EXCEPT ![r] = photo_approvals]
    /\ UNCHANGED <<ledgerVars, jobVars, checkVars, percent, device, restVars, uploadVars>>
    /\ UNCHANGED <<photo_approvals, notifications, comments>>

\* the textarea's onChange, its value having changed to text
SetComment(r, photoId, text) ==
    /\ ReviewShown(r, photoId)
    /\ text # commentOf(r, photoId)
    /\ comments' = [comments EXCEPT ![r] =
                       [i \in DOMAIN @ \cup {photoId} |-> IF i = photoId THEN text ELSE @[i]]]
    /\ UNCHANGED <<ledgerVars, jobVars, checkVars, percent, device, restVars, uploadVars>>
    /\ UNCHANGED <<photo_approvals, notifications, photos>>

\* how the backend answers a review: both writes succeed, the photo_approvals
\* update returns an error, or the update succeeds and the notifications insert
\* returns an error
Outcomes == {"ok", "updateError", "notifError"}

\* the update of the row, the notification of a review and what follows them in the
\* try block
Review(r, photoId, status, comment, title, outcome) ==
    /\ photo_approvals' =
           IF outcome = "updateError" THEN photo_approvals
           ELSE [photo_approvals EXCEPT ![photoId] =
                    [@ EXCEPT !.status = status, !.reviewed_by = r, !.comments = comment]]
    /\ notifications' =
           IF outcome # "ok" THEN notifications
           ELSE Append(notifications,
                       [user_id |-> jobUpdates[photos[r][photoId].job_update_id].user_id,
                        title |-> title, read |-> FALSE, created_by |-> r])
    /\ comments' = IF outcome # "ok" THEN comments
                   ELSE [comments EXCEPT ![r] = deleteComment(r, photoId)]

\* handleApprove(photoId, jobUpdateData)
HandleApprove(r, photoId, outcome) ==
    /\ ReviewShown(r, photoId)
    /\ Len(notifications) < MaxReviews
    /\ Review(r, photoId, "approved",
              IF commentOf(r, photoId) = "" THEN NULL ELSE commentOf(r, photoId),
              "Photo Approved", outcome)
    /\ call' = [NoCall EXCEPT !.op = "handleApprove", !.client = r, !.photoId = photoId,
                              !.comment = commentOf(r, photoId),
                              !.failed = (outcome # "ok")]
    /\ UNCHANGED <<data, stored, saves, today, completedJobs, earlyCompletions, notified>>
    /\ UNCHANGED <<jobVars, checkVars, percent, device, restVars, uploadVars, photos>>

\* handleReject(photoId, jobUpdateData) without its comment check
HandleRejectUnchecked(r, photoId, outcome) ==
    /\ ReviewShown(r, photoId)
    /\ Len(notifications) < MaxReviews
    /\ Review(r, photoId, "rejected", commentOf(r, photoId), "Photo Needs Retake", outcome)
    /\ call' = [NoCall EXCEPT !.op = "handleReject", !.client = r, !.photoId = photoId,
                              !.comment = commentOf(r, photoId),
                              !.failed = (outcome # "ok")]
    /\ UNCHANGED <<data, stored, saves, today, completedJobs, earlyCompletions, notified>>
    /\ UNCHANGED <<jobVars, checkVars, percent, device, restVars, uploadVars, photos>>

\* handleReject(photoId, jobUpdateData)
HandleReject(r, photoId, outcome) ==
    /\ ReviewShown(r, photoId)
    /\ Len(notifications) < MaxReviews
    /\ IF commentOf(r, photoId) = ""
       THEN outcome = "ok" /\ UNCHANGED <<photo_approvals, notifications, comments>>
       ELSE Review(r, photoId, "rejected", commentOf(r, photoId), "Photo Needs Retake",
                   outcome)
    /\ call' = [NoCall EXCEPT !.op = "handleReject", !.client = r, !.photoId = photoId,
                              !.comment = commentOf(r, photoId),
                              !.failed = (outcome # "ok")]
    /\ UNCHANGED <<data, stored, saves, today, completedJobs, earlyCompletions, notified>>
    /\ UNCHANGED <<jobVars, checkVars, percent, device, restVars, uploadVars, photos>>

----------------------------------------------------------------------------
(* ClockButton *)

\* timestamps are kept as set (a time) or NULL; last_location_update as the number
\* of location updates the row has had since its insert
Now == "time"

\* the tracking effect on [activeEntry, isOnBreak]: its cleanup stops the interval,
\* then startLocationTracking sets one whose callback closes over the render's
\* activeEntry, or stopLocationTracking leaves none
TrackingEffect(s, entry, onBreak) ==
    locationInterval' = [locationInterval EXCEPT ![s] =
                            IF entry # 0 /\ ~onBreak THEN entry ELSE 0]

\* the rows checkActiveEntry selects from: the user's rows with clock_out null
OpenEntries(user) ==
    {i \in 1..Len(clock_entries) : /\ clock_entries[i].user_id = user
                                   /\ clock_entries[i].clock_out = NULL}

\* data.break_start && !data.break_end
DerivedOnBreak(row) == row.break_start # NULL /\ row.break_end = NULL

\* checkActiveEntry() is answered: the newest open row of the user, if there is one
CheckActiveEntryDone(s) ==
    /\ checking[s]
    /\ checking' = [checking EXCEPT ![s] = FALSE]
    /\ IF OpenEntries(Technician) # {}
       THEN LET id == CHOOSE i \in OpenEntries(Technician) :
                          \A j \in OpenEntries(Technician) : j <= i
            IN  /\ activeEntry' = [activeEntry EXCEPT ![s] = id]
                /\ isOnBreak' = [isOnBreak EXCEPT ![s] = DerivedOnBreak(clock_entries[id])]
                /\ TrackingEffect(s, id, DerivedOnBreak(clock_entries[id]))
       ELSE UNCHANGED <<activeEntry, isOnBreak, locationInterval>>
    /\ UNCHANGED <<clock_entries, locationRequests>>
    /\ UNCHANGED <<ledgerVars, jobVars, checkVars, percent, device, photoVars, assigned_to,
                   bellVars, uploadVars>>

\* handleClockIn, the location obtained and the insert accepted; the button is
\* rendered while activeEntry is null
HandleClockIn(s) ==
    /\ activeEntry[s] = 0
    /\ Len(clock_entries) < MaxEntries
    /\ clock_entries' = Append(clock_entries,
                               [user_id |-> Technician, clock_in |-> Now, clock_out |-> NULL,
                                break_start |-> NULL, break_end |-> NULL,
                                last_location_update |-> 0])
    /\ checking' = [checking EXCEPT ![s] = TRUE]
    /\ UNCHANGED <<activeEntry, isOnBreak, locationInterval, locationRequests>>
    /\ UNCHANGED <<ledgerVars, jobVars, checkVars, percent, device, photoVars, assigned_to,
                   bellVars, uploadVars>>

\* handleClockOut, the update accepted
HandleClockOut(s) ==
    /\ activeEntry[s] # 0
    /\ clock_entries' = [clock_entries EXCEPT ![activeEntry[s]].clock_out = Now]
    /\ activeEntry' = [activeEntry EXCEPT ![s] = 0]
    /\ isOnBreak' = [isOnBreak EXCEPT ![s] = FALSE]
    /\ TrackingEffect(s, 0, FALSE)
    /\ UNCHANGED <<locationRequests, checking>>
    /\ UNCHANGED <<ledgerVars, jobVars, checkVars, percent, device, photoVars, assigned_to,
                   bellVars, uploadVars>>

\* handleBreak, the update accepted: End Break when isOnBreak, else Start Break
HandleBreak(s) ==
    /\ activeEntry[s] # 0
    /\ clock_entries' = IF isOnBreak[s]
                        THEN [clock_entries EXCEPT ![activeEntry[s]].break_end = Now]
                        ELSE [clock_entries EXCEPT ![activeEntry[s]].break_start = Now]
    /\ isOnBreak' = [isOnBreak EXCEPT ![s] = ~@]
    /\ TrackingEffect(s, activeEntry[s], ~isOnBreak[s])
    /\ UNCHANGED <<activeEntry, locationRequests, checking>>
    /\ UNCHANGED <<ledgerVars, jobVars, checkVars, percent, device, photoVars, assigned_to,
                   bellVars, uploadVars>>

\* the interval fires: its callback calls getCurrentLocation() and awaits it
IntervalFires(s) ==
    /\ locationInterval[s] # 0
    /\ locationRequests' = [locationRequests EXCEPT ![s] = @ \cup {locationInterval[s]}]
    /\ UNCHANGED <<clock_entries, activeEntry, isOnBreak, locationInterval, checking>>
    /\ UNCHANGED <<ledgerVars, jobVars, checkVars, percent, device, photoVars, assigned_to,
                   bellVars, uploadVars>>

\* a location arrives: the callback, its activeEntry not null, updates the row
LocationResolved(s) ==
    /\ \E entry \in locationRequests[s] :
           /\ clock_entries[entry].last_location_update < MaxTicks
           /\ locationRequests' = [locationRequests EXCEPT ![s] = @ \ {entry}]
           /\ clock_entries' = [clock_entries EXCEPT ![entry].last_location_update = @ + 1]
    /\ UNCHANGED <<activeEntry, isOnBreak, locationInterval, checking>>
    /\ UNCHANGED <<ledgerVars, jobVars, checkVars, percent, device, photoVars, assigned_to,
                   bellVars, uploadVars>>

----------------------------------------------------------------------------
(* useNotifications and the NotificationBell of the technician *)

\* the rows of the select: the user's notifications, newest first
UserNotifications(user) ==
    LET RECURSIVE Newest(_)
        Newest(n) ==
            IF n = 0 THEN <<>>
            ELSE IF notifications[n].user_id = user
                 THEN <<[id |-> n, read |-> notifications[n].read]>> \o Newest(n - 1)
                 ELSE Newest(n - 1)
    IN  Newest(Len(notifications))

\* (data || []).filter((n) => !n.read).length
Unread(list) == Cardinality({i \in 1..Len(list) : ~list[i].read})

\* fetchNotifications() is answered
FetchNotificationsDone ==
    /\ fetching
    /\ fetching' = FALSE
    /\ notificationList' = UserNotifications(Technician)
    /\ unreadCount' = Unread(UserNotifications(Technician))
    /\ UNCHANGED <<ledgerVars, jobVars, checkVars, percent, device, photoVars, assigned_to,
                   clockVars, uploadVars>>

\* Math.max(0, prev - 1)
Decrement(prev) == IF prev - 1 > 0 THEN prev - 1 ELSE 0

\* markAsRead(notificationId), the update accepted: by the check button of an
\* unread notification or by a click on any notification of the list
\* (handleNotificationClick); the change of the row reaches the subscription
MarkAsRead(notificationId) ==
    /\ \E i \in 1..Len(notificationList) : notificationList[i].id = notificationId
    /\ notifications' = [notifications EXCEPT ![notificationId].read = TRUE]
    /\ notificationList' =
           [i \in 1..Len(notificationList) |->
               IF notificationList[i].id = notificationId
               THEN [notificationList[i] EXCEPT !.read = TRUE]
               ELSE notificationList[i]]
    /\ unreadCount' = Decrement(unreadCount)
    /\ fetching' = TRUE
    /\ UNCHANGED <<ledgerVars, jobVars, checkVars, percent, device, assigned_to, clockVars, uploadVars>>
    /\ UNCHANGED <<photo_approvals, photos, comments>>

\* markAllAsRead(), the update accepted; its button is rendered while unreadCount > 0
MarkAllAsRead ==
    /\ unreadCount > 0
    /\ notifications' =
           [i \in 1..Len(notifications) |->
               IF notifications[i].user_id = Technician /\ ~notifications[i].read
               THEN [notifications[i] EXCEPT !.read = TRUE]
               ELSE notifications[i]]
    /\ notificationList' =
           [i \in 1..Len(notificationList) |-> [notificationList[i] EXCEPT !.read = TRUE]]
    /\ unreadCount' = 0
    /\ fetching' = (fetching \/ notifications' # notifications)
    /\ UNCHANGED <<ledgerVars, jobVars, checkVars, percent, device, assigned_to, clockVars, uploadVars>>
    /\ UNCHANGED <<photo_approvals, photos, comments>>

----------------------------------------------------------------------------
(* Specifications *)

\* the job form creates the job with n[k] items in checklist k, none completed; the
\* completion columns take their default
JobFormCreate(n) ==
    /\ jobStatus = "pending"
    /\ jobChecklist = [k \in Kinds |-> [i \in 1..n[k] |-> FALSE]]
    /\ jobCompletion = [k \in Kinds |-> 0]

\* no notification yet and no NotificationBell mounted
NoBell ==
    /\ notifications = <<>>
    /\ fetching = FALSE

\* the screens not yet loaded, the ledgers new
InitState ==
    /\ data = [c \in Clients |-> InitialData]
    /\ stored = [c \in Clients |-> InitialData]
    /\ saves = [c \in Clients |-> <<>>]
    /\ today = 1
    /\ completedJobs = [c \in Clients |-> 0]
    /\ earlyCompletions = [c \in Clients |-> 0]
    /\ call = NoCall
    /\ notified = [c \in Clients |-> [a \in AchievementIds |-> 0]]
    /\ jobSignature = NULL
    /\ jobUpdatedAt = 0
    /\ job = [c \in Clients |-> "none"]
    /\ signatureUrl = [c \in Clients |-> NULL]
    /\ showSignaturePad = [c \in Clients |-> FALSE]
    /\ loading = [c \in Clients |-> FALSE]
    /\ requests = [c \in Clients |-> {}]
    /\ padUpload = [c \in Clients |-> {}]
    /\ reload = [c \in Clients |-> TRUE]
    /\ checklistState = [c \in Clients |-> [k \in Kinds |-> <<>>]]
    /\ checklistView = [c \in Clients |-> [k \in Kinds |-> <<>>]]
    /\ percent = [completedItems |-> 0, totalItems |-> 0, client |-> 0, sql |-> 0]
    /\ assigned_to = Technician
    /\ clock_entries = <<>>
    /\ activeEntry = [s \in ClockSessions |-> 0]
    /\ isOnBreak = [s \in ClockSessions |-> FALSE]
    /\ locationInterval = [s \in ClockSessions |-> 0]
    /\ locationRequests = [s \in ClockSessions |-> {}]
    /\ checking = [s \in ClockSessions |-> TRUE]
    /\ notificationList = <<>>
    /\ unreadCount = 0
    /\ photos = [r \in Reviewers |-> <<>>]
    /\ comments = [r \in Reviewers |-> [i \in {} |-> ""]]
    /\ taskPhotos = [c \in Clients |-> <<>>]
    /\ uploadPhotos = [c \in Clients |-> <<>>]

\* every account on a device of its own; the job on screen has empty checklists
Init ==
    /\ InitState
    /\ JobFormCreate([k \in Kinds |-> 0])
    /\ device = [c \in Clients |-> c]
    /\ jobUpdates = <<>>
    /\ photo_approvals = <<>>
    /\ NoBell

\* the amounts the hook is called with: the award of an early completion and an
\* award that crosses more than one level threshold
Amounts == {XpEarly, 500}

NextXP ==
    \/ \E amount \in Amounts : AddXP(Technician, amount)
    \/ SaveDone(Technician)

SpecXP == Init /\ [][NextXP]_vars

NextStreak ==
    \/ UpdateStreak(Technician)
    \/ NextDay
    \/ SaveDone(Technician)

SpecStreak == Init /\ [][NextStreak]_vars

NextJob ==
    \/ \E c \in Clients : LoadJobDone(c)
    \/ \E c \in Clients, newStatus \in Statuses : ClickStatus(c, newStatus)
    \/ \E c \in Clients, ok \in BOOLEAN : UpdateStatusWrite(c, ok, JobEndsLater)
    \/ JobFormSave
    \/ \E c \in Clients : PadCancel(c)
    \/ \E c \in Clients : PadSave(c)
    \/ \E c \in Clients, ok \in BOOLEAN, url \in SignatureUrls : PadSaved(c, ok, url)
    \/ \E c \in Clients : SaveDone(c)

SpecJob == Init /\ [][NextJob]_vars

NextRewards ==
    \/ CompletionCall(Technician)
    \/ \E completedEarly \in BOOLEAN : CompletionAnswered(Technician, completedEarly)
    \/ SaveDone(Technician)

SpecRewards == Init /\ [][NextRewards]_vars

NextPercent ==
    \E totalItems \in 0..MaxChecklistItems : \E completedItems \in 0..totalItems :
        ComputePercent(completedItems, totalItems)

SpecPercent == Init /\ [][NextPercent]_vars

\* a job created by the job form with up to MaxItems items in each checklist
InitChecklist ==
    /\ InitState
    /\ \E n \in [Kinds -> 0..MaxItems] : JobFormCreate(n)
    /\ device = [c \in Clients |-> c]
    /\ jobUpdates = <<>>
    /\ photo_approvals = <<>>
    /\ NoBell

NextChecklist ==
    \/ LoadJobDone(Technician)
    \/ \E kind \in Kinds, index \in 1..MaxItems :
           ChecklistToggle(Technician, kind, index)
    \/ JobFormSave
    \/ SaveDone(Technician)

SpecChecklist == InitChecklist /\ [][NextChecklist]_vars

\* two accounts that log in, one after the other, on the technician's device
InitSharedDevice ==
    /\ InitState
    /\ JobFormCreate([k \in Kinds |-> 0])
    /\ device = [c \in Clients |-> Technician]
    /\ jobUpdates = <<>>
    /\ photo_approvals = <<>>
    /\ NoBell

\* completions by either account; an account is used once the other one's last
\* completion has been answered and its saves have finished
NextSharedDevice ==
    \/ \E c \in Clients :
           /\ \A o \in Clients \ {c} : requests[o] = {} /\ saves[o] = <<>>
           /\ CompletionCall(c)
    \/ \E c \in Clients, completedEarly \in BOOLEAN : CompletionAnswered(c, completedEarly)
    \/ \E c \in Clients : SaveDone(c)

SpecSharedDevice == InitSharedDevice /\ [][NextSharedDevice]_vars

\* the achievement ids drawn for direct addAchievement calls
LedgerIds == {"task_master", "five_star"}

\* the ledger operations in any order within one calendar day, their saves
\* finishing later
NextLedger ==
    \/ AddXP(Technician, XpEarly)
    \/ \E achievementId \in LedgerIds : AddAchievement(Technician, achievementId)
    \/ UpdateStreak(Technician)
    \/ SaveDone(Technician)

SpecLedger == Init /\ [][NextLedger]_vars

\* the update types and photo lists drawn for inserted job updates: NULL, the empty
\* array and every array of one or two urls
PhotoLists ==
    {SqlNull, SqlArray(<<>>)} \cup {SqlArray(<<u>>) : u \in PhotoUrls}
        \cup {SqlArray(<<u, v>>) : u \in PhotoUrls, v \in PhotoUrls}

NextTrigger ==
    \E update_type \in {"in_progress", "completed"}, photo_urls \in PhotoLists :
        InsertJobUpdate(Technician, update_type, photo_urls)

SpecTrigger == Init /\ [][NextTrigger]_vars

\* the technician has inserted one job update with one photo; no reviewer has
\* opened the page yet
InitReview ==
    /\ InitState
    /\ NoBell
    /\ JobFormCreate([k \in Kinds |-> 0])
    /\ device = [c \in Clients |-> c]
    /\ \E urls \in {<<"urlA">>} :
           /\ jobUpdates = <<[user_id |-> Technician, update_type |-> "in_progress",
                               photo_urls |-> SqlArray(urls)]>>
           /\ photo_approvals = on_job_update_photos_inserted(<<>>, 1, SqlArray(urls))

\* two reviewers on the page, each list reloaded whenever its select is answered
NextReview ==
    \/ \E r \in Reviewers : LoadPhotos(r)
    \/ \E r \in Reviewers, photoId \in 1..Len(photo_approvals), text \in {"", "blurry"} :
           SetComment(r, photoId, text)
    \/ \E r \in Reviewers, photoId \in 1..Len(photo_approvals), outcome \in Outcomes :
           HandleApprove(r, photoId, outcome)
    \/ \E r \in Reviewers, photoId \in 1..Len(photo_approvals), outcome \in Outcomes :
           HandleReject(r, photoId, outcome)

SpecReview == InitReview /\ [][NextReview]_vars

\* the technician ticking safety and materials items while the supervisor
\* reassigns the job
NextReassign ==
    \/ LoadJobDone(Technician)
    \/ \E kind \in {"safety", "materials"}, index \in 1..MaxItems :
           ChecklistToggle(Technician, kind, index)
    \/ \E selectedStaff \in {Technician, OtherTechnician} :
           HandleReassign(Supervisor, selectedStaff)

SpecReassign == InitChecklist /\ [][NextReassign]_vars

\* the technician has started the job earlier; updated_at counts the updates of
\* the row from here on
InitStale ==
    /\ InitState
    /\ NoBell
    /\ jobChecklist = [k \in Kinds |-> <<>>]
    /\ jobCompletion = [k \in Kinds |-> 0]
    /\ device = [c \in Clients |-> c]
    /\ jobUpdates = <<[user_id |-> Technician, update_type |-> "in_progress",
                       photo_urls |-> SqlNull]>>
    /\ photo_approvals = <<>>
    /\ jobStatus = "in_progress"

\* the technician on the job screen while the supervisor reassigns the job
NextStale ==
    \/ LoadJobDone(Technician)
    \/ \E newStatus \in Statuses : ClickStatus(Technician, newStatus)
    \/ /\ completedJobs[Technician] < MaxStale
       /\ \E ok \in BOOLEAN : UpdateStatusWrite(Technician, ok, JobEndsLater)
    \/ PadSave(Technician)
    \/ \E ok \in BOOLEAN, url \in SignatureUrls : PadSaved(Technician, ok, url)
    \/ HandleReassign(Supervisor, OtherTechnician)
    \/ SaveDone(Technician)

SpecStale == InitStale /\ [][NextStale]_vars

\* the awards the application issues: a ticked work item, a completion on time and
\* an early one, in any order, their saves finishing later
NextAwards ==
    \/ \E amount \in {WorkXp, XpOnTime, XpEarly} : AddXP(Technician, amount)
    \/ SaveDone(Technician)

SpecAwards == Init /\ [][NextAwards]_vars

\* the technician's two sessions clocking in and out
NextClock ==
    \/ \E s \in ClockSessions : CheckActiveEntryDone(s)
    \/ \E s \in ClockSessions : HandleClockIn(s)
    \/ \E s \in ClockSessions : HandleClockOut(s)

SpecClock == Init /\ [][NextClock]_vars

\* one session clocking in and out and taking breaks, with its location tracking
NextTracking ==
    \/ CheckActiveEntryDone("home1")
    \/ HandleClockIn("home1")
    \/ HandleClockOut("home1")
    \/ HandleBreak("home1")
    \/ IntervalFires("home1")
    \/ LocationResolved("home1")

SpecTracking == Init /\ [][NextTracking]_vars

\* the technician has been assigned up to MaxNotifications jobs and been notified
\* of each, and has read some of the notifications in an earlier session; the bell
\* is mounted and its first fetch is pending
InitBell ==
    /\ InitState
    /\ JobFormCreate([k \in Kinds |-> 0])
    /\ device = [c \in Clients |-> c]
    /\ jobUpdates = <<>>
    /\ photo_approvals = <<>>
    /\ \E n \in 1..MaxNotifications : \E read \in [1..n -> BOOLEAN] :
           notifications = [i \in 1..n |->
                               [user_id |-> Technician, title |-> "New Job Assigned",
                                read |-> read[i], created_by |-> Supervisor]]
    /\ fetching = TRUE

NextBell ==
    \/ FetchNotificationsDone
    \/ \E notificationId \in 1..MaxNotifications : MarkAsRead(notificationId)
    \/ MarkAllAsRead

SpecBell == InitBell /\ [][NextBell]_vars

\* the technician uploads photos and moves the job through its statuses while
\* the supervisor reviews the photos
NextPhotos ==
    \/ LoadJobDone(Technician)
    \/ \E url \in PhotoUrls : HandleFileSelect(Technician, url)
    \/ \E newStatus \in Statuses : ClickStatus(Technician, newStatus)
    \/ \E ok \in BOOLEAN : UpdateStatusWrite(Technician, ok, JobEndsLater)
    \/ PadSave(Technician)
    \/ \E ok \in BOOLEAN, url \in SignatureUrls : PadSaved(Technician, ok, url)
    \/ LoadPhotos(Supervisor)
    \/ \E photoId \in 1..Len(photo_approvals) : HandleApprove(Supervisor, photoId, "ok")
    \/ SaveDone(Technician)

SpecPhotos == Init /\ [][NextPhotos]_vars

----------------------------------------------------------------------------
(* Claims about the hook *)

\* C8: addXP(amount) on a ledger (xp, level): below the threshold level * 100 the
\* level is unchanged and xp becomes xp + amount; at or above it the level rises by
\* exactly one, whatever the amount, and xp becomes xp + amount - level * 100 with
\* the old level. The values are the ones handed to saveData and, when no other
\* save was pending, the ones persisted once the save has finished.
C8_AddXPRule ==
    call.op = "addXP" =>
        LET d == call.pre
            a == call.arg
            s == call.saved[1]
        IN  /\ Len(call.saved) = 1
            /\ d.xp + a < d.level * 100 =>
                   s.level = d.level /\ s.xp = d.xp + a /\ ~call.leveledUp
            /\ d.xp + a >= d.level * 100 =>
                   /\ s.level = d.level + 1
                   /\ s.xp = d.xp + a - d.level * 100
                   /\ call.leveledUp
            /\ (call.idle /\ saves[call.client] = <<>>) =>
                   /\ stored[call.client].level = s.level
                   /\ stored[call.client].xp = s.xp

\* an award that crosses two thresholds has been saved and raised the level by one
C8_Witness ==
    /\ call.op = "addXP"
    /\ call.idle
    /\ saves[call.client] = <<>>
    /\ call.pre.xp + call.arg >= call.pre.level * 100 + (call.pre.level + 1) * 100
    /\ stored[call.client].level = call.pre.level + 1

\* C9: updateStreak is idempotent within a calendar day: once a first call has
\* settled, a second call on the same day leaves the persisted streak and
\* lastClockIn as they were, also on the day the streak reaches 5.
C9_StreakIdempotent ==
    (call.op = "updateStreak" /\ call.again /\ call.idle /\ saves[call.client] = <<>>) =>
        /\ stored[call.client].streak = call.pre.streak
        /\ stored[call.client].lastClockIn = call.pre.lastClockIn

\* C10: after updateStreak has settled: lastClockIn yesterday gives streak + 1 and
\* lastClockIn today; lastClockIn neither yesterday nor today (or never set) gives
\* streak 1 and lastClockIn today; and perfect_week is in the unlocked set after
\* the call whose incremented streak reaches 5.
C10_StreakRule ==
    (call.op = "updateStreak" /\ call.idle /\ saves[call.client] = <<>>) =>
        LET d == call.pre
            day == call.arg
            now == stored[call.client]
        IN  /\ d.lastClockIn = toDateString(day - 1) =>
                   now.streak = d.streak + 1 /\ now.lastClockIn = toDateString(day)
            /\ d.lastClockIn \notin {toDateString(day - 1), toDateString(day)} =>
                   now.streak = 1 /\ now.lastClockIn = toDateString(day)
            /\ (d.lastClockIn = toDateString(day - 1) /\ d.streak + 1 >= 5
                    /\ ~includes(d.achievements, "perfect_week")) =>
                   includes(now.achievements, "perfect_week")

\* the number of occurrences of x in arr
Occurrences(arr, x) == Cardinality({i \in 1..Len(arr) : arr[i] = x})

\* C11: achievements are never removed: an achievement id that is in the persisted
\* unlocked set is still in it after every step of the ledger operations and
\* their saves.
C11_AchievementsMonotonic ==
    [][\A c \in Clients, a \in AchievementIds :
          includes(stored[c].achievements, a) => includes(stored'[c].achievements, a)]_vars

\* C12: addAchievement(id) on a ledger that already contains id returns
\* isNew = false and starts no save; on a ledger that does not contain id it
\* returns isNew = true with the achievement's metadata and saves the set with id
\* added exactly once, which is the persisted set once a call made with no save
\* pending has settled; no id ever occurs twice.
C12_AddAchievement ==
    /\ \A c \in Clients, a \in AchievementIds :
           Occurrences(stored[c].achievements, a) <= 1
    /\ call.op = "addAchievement" =>
           LET d == call.pre
           IN  /\ includes(d.achievements, call.id) =>
                      /\ ~call.isNew
                      /\ call.saved = <<>>
                      /\ call.achievement = NULL
                      /\ (call.idle /\ saves[call.client] = <<>>) =>
                             stored[call.client].achievements = d.achievements
               /\ ~includes(d.achievements, call.id) =>
                      /\ call.isNew
                      /\ call.achievement = call.id
                      /\ Len(call.saved) = 1
                      /\ call.saved[1].achievements = Append(d.achievements, call.id)
                      /\ Occurrences(call.saved[1].achievements, call.id) = 1
                      /\ (call.idle /\ saves[call.client] = <<>>) =>
                             stored[call.client].achievements =
                                 Append(d.achievements, call.id)

\* an already unlocked achievement was added again on a settled ledger
C12_Witness ==
    /\ call.op = "addAchievement"
    /\ call.idle
    /\ saves[call.client] = <<>>
    /\ includes(call.pre.achievements, call.id)
    /\ ~call.isNew
    /\ Len(stored[call.client].achievements) = 2

\* C18: two addXP calls issued from the same render before the first call's save
\* has completed: once both saves have finished the persisted ledger is the second
\* call's save, the pre-call ledger with the second award only.
C18_LostUpdate ==
    (call.op = "addXP" /\ call.again /\ saves[call.client] = <<>>) =>
        /\ stored[call.client].xp = addXP(call.pre, call.arg).saved.xp
        /\ stored[call.client].level = addXP(call.pre, call.arg).saved.level

\* both saves have finished and the first award is missing from the persisted xp
C18_Witness ==
    /\ call.op = "addXP"
    /\ call.again
    /\ saves[call.client] = <<>>
    /\ call.pre.xp + call.arg < call.pre.level * 100
    /\ stored[call.client].xp = call.pre.xp + call.arg
    /\ stored[call.client].level = call.pre.level

----------------------------------------------------------------------------
(* Claims about the checklists *)

\* round(100 * completed / total), a half going up, and 0 for the empty checklist
RoundedPercent(completed, total) ==
    IF total > 0 THEN (200 * completed + total) \div (2 * total) ELSE 0

\* C13: for every checklist the percentage computed by the client and the one
\* computed by calculate_checklist_completion are both round(100 * completed /
\* total), 0 for the empty checklist, and so agree with each other.
C13_CompletionPercent ==
    /\ percent.client = RoundedPercent(percent.completedItems, percent.totalItems)
    /\ percent.sql = RoundedPercent(percent.completedItems, percent.totalItems)
    /\ percent.client = percent.sql

\* C14: in every persisted job state, for each of the three checklists the stored
\* completion percentage is the percentage derived from the stored checklist.
C14_StoredCompletion ==
    \A k \in Kinds :
        jobCompletion[k] =
            calculate_checklist_completion(CompletedCount(jobChecklist[k]),
                                           Len(jobChecklist[k]))

\* C20: handleWorkProgressUpdate awards one 20-XP micro-award exactly when the new
\* list has more completed items than the previously observed list; otherwise it
\* starts no save, and the award it saves is the addXP rule applied with 20, never
\* a deduction.
C20_WorkProgressAward ==
    (call.op = "checklist" /\ call.id = "work") =>
        /\ call.completedItems > call.previousCompleted =>
               /\ call.arg = 20
               /\ call.saved = <<addXP(call.pre, 20).saved>>
        /\ call.completedItems <= call.previousCompleted =>
               /\ call.arg = 0
               /\ call.saved = <<>>
               /\ (call.idle /\ saves[call.client] = <<>>) =>
                      stored[call.client] = call.pre

\* an item of the work-progress list was unticked on a settled ledger that holds an
\* earlier micro-award: nothing was awarded and nothing deducted
C20_Witness ==
    /\ call.op = "checklist"
    /\ call.id = "work"
    /\ call.completedItems < call.previousCompleted
    /\ call.idle
    /\ saves[call.client] = <<>>
    /\ stored[call.client].xp = 20

----------------------------------------------------------------------------
(* Claims about the completion rewards *)

CompletionAchievements == {"task_master", "five_star", "speed_demon"}

\* C6: after a successful completion issued on a settled ledger, once its saves
\* have finished, the persisted ledger is the pre-completion ledger with the award
\* (50 XP when early, otherwise 30 XP) applied by the addXP rule, also when the
\* completion unlocks achievements.
C6_CompletionAward ==
    (call.op = "complete" /\ call.idle /\ saves[call.client] = <<>>) =>
        LET expected == addXP(call.pre, IF call.early THEN 50 ELSE 30).saved
        IN  /\ stored[call.client].xp = expected.xp
            /\ stored[call.client].level = expected.level

\* C7: each completion achievement unlocks exactly once (task_master on the first
\* completion, five_star on the 20th, speed_demon on the 5th early one); once the
\* unlocking completion has settled it is in the persisted unlocked set and no
\* later completion reports it again.
C7_UnlockOnce ==
        \A c \in Clients, a \in CompletionAchievements :
            /\ notified[c][a] <= 1
            /\ (saves[c] = <<>> /\ notified[c][a] = 1) =>
                   includes(stored[c].achievements, a)
            /\ (saves[c] = <<>> /\ a = "task_master") =>
                   (notified[c][a] = 1 <=> completedJobs[device[c]] >= 1)
            /\ (saves[c] = <<>> /\ a = "five_star") =>
                   (notified[c][a] = 1 <=> completedJobs[device[c]] >= 20)
            /\ (saves[c] = <<>> /\ a = "speed_demon") =>
                   (notified[c][a] = 1 <=> earlyCompletions[device[c]] >= 5)

\* C19: the counters behind five_star and speed_demon are kept per technician: a
\* completion by one account leaves the counters that the other account's
\* completions read as they were, also on a shared device, and raises its own
\* completed-jobs counter by 1 and its early counter by 1 when it is early.
C19_CountersPerTechnician ==
    [][\A c \in Clients :
          (call' # call /\ call'.op = "complete" /\ call'.client = c) =>
              /\ \A o \in Clients \ {c} :
                     /\ completedJobs'[device[o]] = completedJobs[device[o]]
                     /\ earlyCompletions'[device[o]] = earlyCompletions[device[o]]
              /\ completedJobs'[device[c]] = completedJobs[device[c]] + 1
              /\ earlyCompletions'[device[c]] =
                     earlyCompletions[device[c]] + (IF call'.early THEN 1 ELSE 0)]_vars

----------------------------------------------------------------------------
(* Claims about the job lifecycle *)

dbVars == <<jobStatus, jobSignature, jobUpdatedAt, jobUpdates>>

LegalTransitions ==
    {<<"pending", "in_progress">>, <<"in_progress", "completed">>,
     <<"pending", "cancelled">>, <<"in_progress", "cancelled">>}

\* C1: a job whose persisted status is completed has a signature_url; every
\* updateStatus("completed") that goes on to the backend carries a signature, and
\* the step that opens signature capture writes nothing to the job and starts no
\* request.
C1_SignatureGate ==
    /\ [](jobStatus = "completed" => jobSignature # NULL)
    /\ [](\A c \in Clients : \A rq \in requests[c] :
              rq.newStatus = "completed" => rq.signatureUrl # NULL)
    /\ [][\A c \in Clients :
              (~showSignaturePad[c] /\ showSignaturePad'[c]) =>
                  /\ UNCHANGED dbVars
                  /\ requests'[c] = requests[c]]_vars

\* a completion was diverted to signature capture and the job is now completed
C1_Witness ==
    /\ jobStatus = "completed"
    /\ jobSignature # NULL
    /\ \E i \in 1..Len(jobUpdates) : jobUpdates[i].update_type = "completed"

\* C2: when the capture that a diverted completion of an in_progress job asked for
\* succeeds, the completion goes on by itself and the pad stays closed.
C2_AutoComplete ==
    [][\A c \in Clients :
          (/\ padUpload[c] # {}
           /\ padUpload'[c] = {}
           /\ \A cl \in padUpload[c] : cl.signatureUrl = NULL /\ cl.job = "in_progress"
           /\ jobStatus = "in_progress"
           /\ signatureUrl[c] = NULL
           /\ signatureUrl'[c] # NULL) =>
              /\ ~showSignaturePad'[c]
              /\ \E rq \in requests'[c] : rq.newStatus = "completed"]_vars

\* C3: every change of the persisted status that an updateStatus of the job screen
\* makes is a legal transition, so the job screen never moves a completed or
\* cancelled job to another status, also when it acts on a stale copy of the job.
C3_LegalTransitions ==
    [][(jobStatus' # jobStatus /\ requests' # requests) =>
           <<jobStatus, jobStatus'>> \in LegalTransitions]_vars

\* C4: an updateStatus whose target is no legal successor of the persisted status
\* is rejected: it does not write the job row, appends no JobUpdateRecord and
\* awards nothing.
C4_IllegalRejected ==
    [][\A c \in Clients : \A rq \in requests[c] \ requests'[c] :
          <<jobStatus, rq.newStatus>> \notin LegalTransitions =>
              /\ UNCHANGED dbVars
              /\ UNCHANGED <<saves, completedJobs, earlyCompletions, notified>>]_vars

\* C5: every status transition made by a successful updateStatus appends exactly
\* one JobUpdateRecord whose update_type is the new status, whoever acts, and the
\* earlier records stay as they are.
C5_UpdateLogged ==
    [][/\ Len(jobUpdates') >= Len(jobUpdates)
       /\ SubSeq(jobUpdates', 1, Len(jobUpdates)) = jobUpdates
       /\ (jobStatus' # jobStatus /\ requests' # requests) =>
              /\ Len(jobUpdates') = Len(jobUpdates) + 1
              /\ jobUpdates'[Len(jobUpdates')].update_type = jobStatus']_vars

----------------------------------------------------------------------------
(* Claims about the photo approvals *)

\* the rows of photo_approvals for job update id and url
ApprovalsOf(id, url) ==
    {i \in 1..Len(photo_approvals) : /\ photo_approvals[i].job_update_id = id
                                     /\ photo_approvals[i].photo_url = url}

\* C17: every inserted job update has exactly one photo_approvals row for each
\* distinct url of its photo list, pending and without reviewer, and none for a url
\* that is not in its list; a NULL or empty list has no row at all, and a list with
\* a repeated url is inserted like any other.
C17_OnePerDistinctUrl ==
    /\ \A id \in 1..Len(jobUpdates) : \A url \in PhotoUrls :
           LET elems == jobUpdates[id].photo_urls.elems
           IN  IF includes(elems, url)
               THEN /\ Cardinality(ApprovalsOf(id, url)) = 1
                    /\ \A i \in ApprovalsOf(id, url) :
                           /\ photo_approvals[i].status = "pending"
                           /\ photo_approvals[i].reviewed_by = NULL
               ELSE ApprovalsOf(id, url) = {}
    /\ \A i \in 1..Len(photo_approvals) :
           photo_approvals[i].job_update_id \in 1..Len(jobUpdates)

\* C17 witness: an update whose list holds the same url twice has been inserted, and
\* so has one with an empty list
C17_Witness ==
    /\ \E id \in 1..Len(jobUpdates) :
           LET elems == jobUpdates[id].photo_urls.elems
           IN  Len(elems) = 2 /\ elems[1] = elems[2]
    /\ \E id \in 1..Len(jobUpdates) :
           ~jobUpdates[id].photo_urls.is_null /\ jobUpdates[id].photo_urls.elems = <<>>

\* C15: a handleReject on a record that is pending, with the reviewer's comment for
\* it empty, writes nothing: photo_approvals and notifications are as they were, and
\* the record is still pending.
C15_RejectNeedsComment ==
    [][(/\ call' # call
        /\ call'.op = "handleReject"
        /\ call'.comment = ""
        /\ photo_approvals[call'.photoId].status = "pending")
       => /\ UNCHANGED <<photo_approvals, notifications>>
          /\ photo_approvals'[call'.photoId].status = "pending"]_vars

\* C15 witness: a reject with an empty comment was the last call, on a pending record
C15_Witness ==
    /\ call.op = "handleReject"
    /\ call.comment = ""
    /\ photo_approvals[call.photoId].status = "pending"

\* C16: once a record is approved or rejected, its status, reviewer and comment
\* never change again.
C16_ReviewTerminal ==
    [][\A i \in 1..Len(photo_approvals) :
           photo_approvals[i].status # "pending"
               => photo_approvals'[i] = photo_approvals[i]]_vars

----------------------------------------------------------------------------
(* Claims about writes to the job row *)

\* C21: a checklist handler's update changes, of the job row, only the handler's
\* own checklist (and work_completion when it is the work progress): status,
\* assignee, signature, the other two checklists and the other completion columns
\* stay as they were, and no job_updates row is appended.
C21_ChecklistFrame ==
    [][(call' # call /\ call'.op = "checklist")
       => /\ UNCHANGED <<jobStatus, assigned_to, jobSignature, jobUpdates>>
          /\ \A k \in Kinds \ {call'.id} :
                 /\ jobChecklist'[k] = jobChecklist[k]
                 /\ jobCompletion'[k] = jobCompletion[k]
          /\ call'.id # "work" => jobCompletion' = jobCompletion]_vars

\* C21 witness: a checklist handler has written a list with a ticked item
C21_Witness ==
    /\ call.op = "checklist"
    /\ \E k \in Kinds : \E i \in 1..Len(jobChecklist[k]) : jobChecklist[k][i]
    /\ jobUpdatedAt > 0

\* C24: whichever of the two arrives first, the technician's checklist update is in
\* the row after it: the row's list is the list the handler sent.
C24_ChecklistSurvivesReassign ==
    [][(call' # call /\ call'.op = "checklist")
       => jobChecklist'[call'.id] = checklistView'[call'.client][call'.id]]_vars

----------------------------------------------------------------------------
(* Claims about failed writes *)

\* C22: a handleApprove or handleReject on a pending record that ends in its catch
\* block leaves the record as it was: pending, without reviewer and comment.
C22_FailedReviewKeepsRecord ==
    [][(/\ call' # call
        /\ call'.op \in {"handleApprove", "handleReject"}
        /\ call'.failed
        /\ photo_approvals[call'.photoId].status = "pending")
       => photo_approvals'[call'.photoId] = photo_approvals[call'.photoId]]_vars

\* C23: an updateStatus whose jobs update is answered without the row having been
\* written (an error, or no row the caller may update) does nothing else: no
\* job_updates row, no XP, achievement or counter, no new request, and loading is
\* cleared.
C23_FailedWriteChangesNothing ==
    [][\A c \in Clients :
           (/\ requests'[c] # requests[c]
            /\ requests'[c] \subseteq requests[c]
            /\ jobUpdatedAt' = jobUpdatedAt)
           => /\ UNCHANGED <<jobUpdates, data, stored, saves, completedJobs,
                             earlyCompletions, notified>>
              /\ ~loading'[c]]_vars

----------------------------------------------------------------------------
(* Claims about the ledger's range *)

\* level >= 1 and 0 <= xp < level * 100
InRange(d) == d.level >= 1 /\ 0 <= d.xp /\ d.xp < d.level * 100

\* C25: with the awards of 20, 30 and 50 XP only, every ledger the hook holds, has
\* handed to saveData or has persisted satisfies level >= 1 and
\* 0 <= xp < level * 100.
C25_LedgerInRange ==
    \A c \in Clients :
        /\ InRange(data[c])
        /\ InRange(stored[c])
        /\ \A i \in 1..Len(saves[c]) : InRange(saves[c][i])

\* C25 witness: an award has crossed a threshold with a remainder, and its ledger
\* has been persisted
C25_Witness ==
    /\ stored[Technician].level > 1
    /\ stored[Technician].xp > 0

----------------------------------------------------------------------------
(* Claims about the clock entries *)

\* C26: the technician has at most one clock entry with clock_out null.
C26_OneOpenEntry == Cardinality(OpenEntries(Technician)) <= 1

\* C27: while the session holds an open entry, its isOnBreak is what
\* checkActiveEntry would derive from the row.
C27_BreakFlagAgrees ==
    \A s \in ClockSessions :
        (activeEntry[s] # 0 /\ clock_entries[activeEntry[s]].clock_out = NULL)
            => isOnBreak[s] = DerivedOnBreak(clock_entries[activeEntry[s]])

\* C30: a location update is written only to an entry that is open and not on break.
C30_LocationOnlyWhileTracking ==
    [][\A i \in 1..Len(clock_entries) :
           clock_entries'[i].last_location_update # clock_entries[i].last_location_update
               => /\ clock_entries[i].clock_out = NULL
                  /\ ~DerivedOnBreak(clock_entries[i])]_vars

----------------------------------------------------------------------------
(* Claims about the notification bell *)

\* C28: unreadCount is the number of notifications of the list with read false.
C28_UnreadCountAgrees == unreadCount = Unread(notificationList)

----------------------------------------------------------------------------
(* Claims about the photos of the job screen *)

\* the rows of job_updates that carry url
CarriedBy(url) ==
    {i \in 1..Len(jobUpdates) :
        /\ ~jobUpdates[i].photo_urls.is_null
        /\ \E k \in 1..Len(jobUpdates[i].photo_urls.elems) :
               jobUpdates[i].photo_urls.elems[k] = url}

\* the rows of photo_approvals of url, whatever their job update
ApprovalsOfPhoto(url) ==
    {i \in 1..Len(photo_approvals) : photo_approvals[i].photo_url = url}

\* C29: no photo is carried by two job updates of the job, so no photo has two
\* approval records and none that was reviewed has a pending record as well.
C29_PhotoCarriedOnce ==
    \A url \in PhotoUrls :
        /\ Cardinality(CarriedBy(url)) <= 1
        /\ Cardinality(ApprovalsOfPhoto(url)) <= 1
        /\ \A i, j \in ApprovalsOfPhoto(url) :
               (i < j /\ photo_approvals[i].status # "pending")
                   => photo_approvals[j].status # "pending"

====
